---------------------------- MODULE Spec2Model ----------------------------
(***************************************************************************)
(* A model of structured-merge-diff: the value model (value/value.go),     *)
(* the validating walker (typed/validate.go), the removing walker, the     *)
(* schema-less list identity heuristic and the field-path string tables    *)
(* (fieldpath/strings/table.go).                                           *)
(***************************************************************************)
EXTENDS Integers, Sequences, FiniteSets, TLC

(***************************************************************************)
(* Bounds of the model.                                                    *)
(***************************************************************************)
MaxLen == 2        \* longest list handed to the removing walker
MaxListLen == 3    \* longest list handed to the validating walker
MaxRemove == 2     \* most paths in a removal set
MaxRemovals == 2   \* removals applied in a row to one document
MaxOps == 3        \* Set/Get calls made on one Map
MaxCalls == 2      \* string-table lookups recorded in one run
MaxIndex == 2      \* largest list index handed to the heuristic
MaxFields == 3     \* most entries of a map handed to the heuristic
MaxElems == 2      \* longest list whose elements' identities are derived

(***************************************************************************)
(* Generic sequence helpers.                                               *)
(***************************************************************************)
RECURSIVE Concat(_)
Concat(ss) == IF ss = <<>> THEN <<>> ELSE Head(ss) \o Concat(Tail(ss))

RECURSIVE Join(_, _)
Join(strs, sep) ==
    IF strs = <<>> THEN ""
    ELSE IF Len(strs) = 1 THEN strs[1]
    ELSE strs[1] \o sep \o Join(Tail(strs), sep)

Digits == <<"0", "1", "2", "3", "4", "5", "6", "7", "8", "9">>

\* fmt's %v of an integer.
RECURSIVE IntStr(_)
IntStr(n) ==
    IF n < 0 THEN "-" \o IntStr(0 - n)
    ELSE IF n < 10 THEN Digits[n + 1]
    ELSE IntStr(n \div 10) \o Digits[(n % 10) + 1]

(***************************************************************************)
(* value/value.go: the Value variant.  A Float is held in tenths.          *)
(***************************************************************************)
NullValue == [kind |-> "Null"]
StringValue(s) == [kind |-> "String", String |-> s]
IntValue(i) == [kind |-> "Int", Int |-> i]
FloatValue(tenths) == [kind |-> "Float", Float |-> tenths]
BooleanValue(b) == [kind |-> "Boolean", Boolean |-> b]
ListValue(items) == [kind |-> "List", Items |-> items]
MapValue(items) == [kind |-> "Map", Items |-> items]
Field(name, value) == [Name |-> name, Value |-> value]

IsScalarValue(v) == v.kind \in {"String", "Int", "Float", "Boolean"}

\* fmt's %v of a float64 with at most one decimal digit.
FloatStr(tenths) ==
    IF tenths % 10 = 0 THEN IntStr(tenths \div 10)
    ELSE IntStr(tenths \div 10) \o "." \o IntStr(tenths % 10)

\* fmt's %q of a string without characters that need escaping.
Quote(s) == "\"" \o s \o "\""

RECURSIVE HumanReadable(_)
HumanReadable(v) ==
    CASE v.kind = "Float" -> FloatStr(v.Float)
      [] v.kind = "Int" -> IntStr(v.Int)
      [] v.kind = "String" -> Quote(v.String)
      [] v.kind = "Boolean" -> (IF v.Boolean THEN "true" ELSE "false")
      [] v.kind = "List" ->
            "[" \o Join([i \in DOMAIN v.Items |-> HumanReadable(v.Items[i])], ",") \o "]"
      [] v.kind = "Map" ->
            "{" \o Join([i \in DOMAIN v.Items |->
                            v.Items[i].Name \o "=" \o HumanReadable(v.Items[i].Value)], ";") \o "}"
      [] OTHER -> "null"

\* Map.Get, lines 66-72: the index built from Items; a later entry of the
\* same name overwrites an earlier one.
BuildIndex(items) ==
    [n \in {items[i].Name : i \in DOMAIN items} |->
        CHOOSE i \in DOMAIN items :
            /\ items[i].Name = n
            /\ \A j \in DOMAIN items : items[j].Name = n => j <= i]

\* Map.Get on a Map whose index is not built yet: (Field, ok).
MapGet(items, key) ==
    LET index == BuildIndex(items)
    IN IF key \in DOMAIN index
       THEN [ok |-> TRUE, Field |-> items[index[key]]]
       ELSE [ok |-> FALSE, Field |-> Field(key, NullValue)]

(***************************************************************************)
(* The schema model: atoms, type references and the type catalog.          *)
(***************************************************************************)
Numeric == "numeric"
String == "string"
Boolean == "boolean"
Atomic == "atomic"
Associative == "associative"
Separable == "separable"

ScalarAtom(scalar) == [kind |-> "Scalar", Scalar |-> scalar]
StructAtom(fields) == [kind |-> "Struct", Fields |-> fields]
ListAtom(elementType, relationship, keys) ==
    [kind |-> "List", ElementType |-> elementType,
     ElementRelationship |-> relationship, Keys |-> keys]
MapAtom(fields, elementType, relationship) ==
    [kind |-> "Map", Fields |-> fields, ElementType |-> elementType,
     ElementRelationship |-> relationship]
UntypedAtom == [kind |-> "Untyped"]

StructField(name, type) == [Name |-> name, Type |-> type]
TypeDef(name, atom) == [Name |-> name, Atom |-> atom]
NamedType(name) == [ref |-> "named", NamedType |-> name]
Inlined(atom) == [ref |-> "inline", Inlined |-> atom]

\* Schema.Resolve: an inline atom resolves to itself, a named type to the
\* first catalog entry of that name.
Resolve(schema, typeRef) ==
    IF typeRef.ref = "inline"
    THEN [ok |-> TRUE, Atom |-> typeRef.Inlined]
    ELSE IF \E i \in DOMAIN schema : schema[i].Name = typeRef.NamedType
         THEN [ok |-> TRUE,
               Atom |-> schema[CHOOSE i \in DOMAIN schema :
                                  /\ schema[i].Name = typeRef.NamedType
                                  /\ \A j \in DOMAIN schema :
                                        schema[j].Name = typeRef.NamedType => i <= j].Atom]
         ELSE [ok |-> FALSE, Atom |-> UntypedAtom]

(***************************************************************************)
(* fieldpath: path elements, paths and path sets.                          *)
(***************************************************************************)
EmptyPE == [kind |-> "None"]
FieldNamePE(name) == [kind |-> "FieldName", FieldName |-> name]
IndexPE(index) == [kind |-> "Index", Index |-> index]
KeyPE(fields) == [kind |-> "Key", Key |-> fields]
ValuePE(value) == [kind |-> "Value", Value |-> value]

\* PathElement.String: the canonical form used as a map key.
PathElementString(pe) ==
    CASE pe.kind = "FieldName" -> pe.FieldName
      [] pe.kind = "Key" ->
            "[" \o Join([i \in DOMAIN pe.Key |->
                            pe.Key[i].Name \o "=" \o HumanReadable(pe.Key[i].Value)], ",") \o "]"
      [] pe.kind = "Value" -> "[" \o HumanReadable(pe.Value) \o "]"
      [] pe.kind = "Index" -> "[" \o IntStr(pe.Index) \o "]"
      [] OTHER -> ""

\* Two path elements are the same member when they are of one kind and
\* have one canonical form.
SamePE(a, b) == a.kind = b.kind /\ PathElementString(a) = PathElementString(b)

SamePath(p, q) ==
    /\ Len(p) = Len(q)
    /\ \A i \in DOMAIN p : SamePE(p[i], q[i])

\* fieldpath.MakePath of one path element.
MakePath(pe) == <<pe>>

\* Set.Has: the path is a member of the set.
SetHas(set, path) == \E p \in set : SamePath(p, path)

\* Set.WithPrefix: the paths under pe, with pe taken off.
WithPrefix(set, pe) ==
    {Tail(p) : p \in {q \in set : Len(q) > 1 /\ SamePE(q[1], pe)}}

\* Set.Empty
SetEmpty(set) == set = {}

(***************************************************************************)
(* value/value.go: Map.Get and Map.Set on the Map's state, its Items and   *)
(* its lazily built index.  A *Field of the index is the position of the   *)
(* entry it points to in Items.                                            *)
(***************************************************************************)
NilIndex == [nil |-> TRUE]
BuiltIndex(items) == [nil |-> FALSE, at |-> BuildIndex(items)]

\* Map.Get: the index is built when it is nil; the result is (f, ok), f
\* the position of the entry found.
Map_Get(items, index, key) ==
    LET built == IF index.nil THEN BuiltIndex(items) ELSE index
        ok == key \in DOMAIN built.at
    IN [Items |-> items, index |-> built, ok |-> ok,
        f |-> IF ok THEN built.at[key] ELSE 0]

\* Map.Set that leaves the index it looked the key up in after an append.
Map_Set_keepsIndex(items, index, key, value) ==
    LET got == Map_Get(items, index, key)
    IN IF got.ok
       THEN [Items |-> [got.Items EXCEPT ![got.f].Value = value], index |-> got.index]
       ELSE [Items |-> Append(got.Items, Field(key, value)), index |-> got.index]

\* Map.Set: the entry found is updated through its pointer; a new entry is
\* appended and the index dropped.
Map_Set(items, index, key, value) ==
    LET got == Map_Get(items, index, key)
    IN IF got.ok
       THEN [Items |-> [got.Items EXCEPT ![got.f].Value = value], index |-> got.index]
       ELSE [Items |-> Append(got.Items, Field(key, value)), index |-> NilIndex]

(***************************************************************************)
(* The schema-less identity of a list element.                             *)
(***************************************************************************)
AssociativeListCandidateFieldNames == <<"key", "id", "name">>

\* The loop of GuessBestListPathElement (lines 102-112) over the names left.
RECURSIVE guessKeys(_, _)
guessKeys(names, item) ==
    IF names = <<>> THEN <<>>
    ELSE LET got == MapGet(item.Items, Head(names))
             rest == guessKeys(Tail(names), item)
         IN IF ~got.ok THEN rest
            ELSE IF got.Field.Value.kind \in {"Null", "Map", "List"} THEN rest
            ELSE <<got.Field>> \o rest

\* The heuristic that stops at the first candidate field it finds.
GuessFirstCandidate(index, item) ==
    IF item.kind # "Map" THEN IndexPE(index)
    ELSE LET keys == guessKeys(AssociativeListCandidateFieldNames, item)
         IN IF Len(keys) > 0 THEN KeyPE(<<keys[1]>>) ELSE IndexPE(index)

GuessBestListPathElement(index, item) ==
    IF item.kind # "Map" THEN IndexPE(index)
    ELSE LET keys == guessKeys(AssociativeListCandidateFieldNames, item)
         IN IF Len(keys) > 0 THEN KeyPE(keys) ELSE IndexPE(index)

(***************************************************************************)
(* fieldpath/strings/table.go: the string tables.                          *)
(***************************************************************************)
\* The lines of the version strings v0 and v1, one table entry per line.
versions ==
    << <<"apiVersion", "kind">>,
       <<"apiVersion", "kind", "metadata">> >>

DefaultVersion == 1

\* init(): one table and one reverse table per version; an entry's number
\* is its 0-based line.
stringTables == versions
reverseTables ==
    [v \in DOMAIN versions |->
        [str \in {versions[v][i] : i \in DOMAIN versions[v]} |->
            (CHOOSE i \in DOMAIN versions[v] :
                /\ versions[v][i] = str
                /\ \A j \in DOMAIN versions[v] : versions[v][j] = str => j <= i) - 1]]

\* tables[i] of a Go slice: a panic when i is not below its length.
SliceAt(tables, i) ==
    IF i >= 0 /\ i < Len(tables)
    THEN [kind |-> "ok", table |-> tables[i + 1]]
    ELSE [kind |-> "panic", message |-> "index out of range"]

GetTable(i) ==
    IF i < 0 \/ i > Len(stringTables)
    THEN [kind |-> "error",
          message |-> "unable to lookup string table version " \o IntStr(i)]
    ELSE SliceAt(stringTables, i)

GetReverseTable(i) ==
    IF i < 0 \/ i > Len(reverseTables)
    THEN [kind |-> "error",
          message |-> "unable to lookup reverse string table version " \o IntStr(i)]
    ELSE SliceAt(reverseTables, i)

(***************************************************************************)
(* typed/validate.go: the validating walker.                               *)
(***************************************************************************)
\* validation.error: the error carries a copy of the walker's path.
ValidationError(path, message) == [Path |-> path, ErrorMessage |-> message]

\* The (PathElement, error) pair the derivation functions return.
Derived(pe) == [pe |-> pe, ok |-> TRUE, err |-> ""]
DeriveError(pe, message) == [pe |-> pe, ok |-> FALSE, err |-> message]

\* The loop of keyedAssociativeListItemToPathElement over list.Keys: pe.Key
\* grows by one field per key found, and the first key the element omits
\* ends the loop with an error and the path element built so far.
RECURSIVE keyedLoop(_, _, _)
keyedLoop(keys, child, key) ==
    IF keys = <<>>
    THEN Derived(IF key = <<>> THEN EmptyPE ELSE KeyPE(key))
    ELSE LET got == MapGet(child.Items, Head(keys))
         IN IF got.ok
            THEN keyedLoop(Tail(keys), child,
                           Append(key, Field(Head(keys), got.Field.Value)))
            ELSE DeriveError(IF key = <<>> THEN EmptyPE ELSE KeyPE(key),
                    "associative list with keys has an element that omits key field "
                    \o Head(keys))

\* The derivation that lists the key fields in the element's own field
\* order instead of the order of list.Keys.
keyedAssociativeListItemToPathElement_itemOrder(list, index, child) ==
    IF child.kind = "Null"
    THEN DeriveError(EmptyPE, "associative list with keys may not have a null element")
    ELSE IF child.kind # "Map"
    THEN DeriveError(EmptyPE, "associative list with keys may not have non-map elements")
    ELSE IF ~keyedLoop(list.Keys, child, <<>>).ok
    THEN keyedLoop(list.Keys, child, <<>>)
    ELSE Derived(KeyPE(SelectSeq(child.Items,
                    LAMBDA f : \E k \in DOMAIN list.Keys : list.Keys[k] = f.Name)))

keyedAssociativeListItemToPathElement(list, index, child) ==
    IF child.kind = "Null"
    THEN DeriveError(EmptyPE, "associative list with keys may not have a null element")
    ELSE IF child.kind # "Map"
    THEN DeriveError(EmptyPE, "associative list with keys may not have non-map elements")
    ELSE keyedLoop(list.Keys, child, <<>>)

setItemToPathElement(list, index, child) ==
    CASE child.kind = "Map" ->
            DeriveError(EmptyPE, "associative list without keys has an element that's a map type")
      [] child.kind = "List" ->
            DeriveError(EmptyPE, "not supported: associative list with lists as elements")
      [] child.kind = "Null" ->
            DeriveError(EmptyPE, "associative list without keys has an element that's an explicit null")
      [] OTHER -> Derived(ValuePE(child))

\* The derivation that names every element by its position, whatever the
\* list's element relationship.
listItemToPathElement_byIndex(list, index, child) == Derived(IndexPE(index))

listItemToPathElement(list, index, child) ==
    IF list.ElementRelationship = Associative
    THEN IF Len(list.Keys) > 0
         THEN keyedAssociativeListItemToPathElement(list, index, child)
         ELSE setItemToPathElement(list, index, child)
    ELSE Derived(IndexPE(index))

RECURSIVE validate(_, _, _, _)
RECURSIVE validation_doStruct_fields(_, _, _, _)
RECURSIVE validation_doList_items(_, _, _, _, _, _)
RECURSIVE validation_doMap_items(_, _, _, _)

\* doScalar with a Numeric that accepts the integer representation only.
validation_doScalar_IntOnly(path, t, value) ==
    CASE t = Numeric /\ value.kind # "Int" ->
            <<ValidationError(path, "expected numeric (int or float), got "
                                    \o HumanReadable(value))>>
      [] t = String /\ value.kind # "String" ->
            <<ValidationError(path, "expected string, got " \o HumanReadable(value))>>
      [] t = Boolean /\ value.kind # "Boolean" ->
            <<ValidationError(path, "expected boolean, got " \o HumanReadable(value))>>
      [] OTHER -> <<>>

validation_doScalar(path, t, value) ==
    CASE t = Numeric /\ value.kind # "Float" /\ value.kind # "Int" ->
            <<ValidationError(path, "expected numeric (int or float), got "
                                    \o HumanReadable(value))>>
      [] t = String /\ value.kind # "String" ->
            <<ValidationError(path, "expected string, got " \o HumanReadable(value))>>
      [] t = Boolean /\ value.kind # "Boolean" ->
            <<ValidationError(path, "expected boolean, got " \o HumanReadable(value))>>
      [] OTHER -> <<>>

\* The first loop of doStruct, over t.Fields (lines 125-140).
validation_doStruct_fields(path, schema, fields, m) ==
    IF fields = <<>> THEN <<>>
    ELSE LET f == Head(fields)
             child == MapGet(m.Items, f.Name)
         IN (IF child.ok
             THEN validate(Append(path, FieldNamePE(f.Name)), child.Field.Value,
                           schema, f.Type)
             ELSE <<>>)
            \o validation_doStruct_fields(path, schema, Tail(fields), m)

\* doStruct without its second loop: unknown fields pass.
validation_doStruct_open(path, t, m) == <<>>

\* The second loop of doStruct (lines 143-147): one error per entry of
\* m.Items whose name no field of the struct has.
validation_doStruct_unknown(path, t, m) ==
    LET allowedNames == {t.Fields[i].Name : i \in DOMAIN t.Fields}
        unknown == SelectSeq(m.Items, LAMBDA f : f.Name \notin allowedNames)
    IN [i \in DOMAIN unknown |->
           ValidationError(path, "field " \o unknown[i].Name
                                 \o " is not mentioned in the schema")]

validation_doStruct(path, schema, t, value) ==
    CASE value.kind = "Null" -> <<>>
      [] value.kind = "Map" ->
            validation_doStruct_fields(path, schema, t.Fields, value)
            \o validation_doStruct_unknown(path, t, value)
      [] OTHER ->
            <<ValidationError(path, "expected struct, got " \o HumanReadable(value))>>

\* doList that takes every derivation for a success.
derivationNeverFails(derived) == FALSE

\* doList that remembers only the key it saw last.
observeLast(observedKeys, keyStr) == {keyStr}

\* doList, line 231: the element's path element could not be derived.
derivationFailed(derived) == ~derived.ok

\* doList, line 242: the element's key joins the keys observed so far.
observe(observedKeys, keyStr) == observedKeys \cup {keyStr}

\* The loop of doList (lines 229-248) from element i on, with the keys
\* observed so far.
validation_doList_items(path, schema, t, items, i, observedKeys) ==
    IF i > Len(items) THEN <<>>
    ELSE LET child == items[i]
             derived == listItemToPathElement(t, i - 1, child)
             keyStr == PathElementString(derived.pe)
         IN IF derivationFailed(derived)
            THEN <<ValidationError(path, "element " \o IntStr(i - 1) \o ": " \o derived.err)>>
                 \o validation_doList_items(path, schema, t, items, i + 1, observedKeys)
            ELSE (IF keyStr \in observedKeys
                  THEN <<ValidationError(path, "duplicate entries for key " \o keyStr)>>
                  ELSE <<>>)
                 \o validate(Append(path, derived.pe), child, schema, t.ElementType)
                 \o validation_doList_items(path, schema, t, items, i + 1,
                                            observe(observedKeys, keyStr))

validation_doList(path, schema, t, value) ==
    CASE value.kind = "Null" -> <<>>
      [] value.kind = "List" ->
            validation_doList_items(path, schema, t, value.Items, 1, {})
      [] OTHER -> <<ValidationError(path, "expected list")>>

validation_doMap_items(path, schema, t, items) ==
    IF items = <<>> THEN <<>>
    ELSE validate(Append(path, FieldNamePE(Head(items).Name)), Head(items).Value,
                  schema, t.ElementType)
         \o validation_doMap_items(path, schema, t, Tail(items))

validation_doMap(path, schema, t, value) ==
    CASE value.kind = "Null" -> <<>>
      [] value.kind = "Map" -> validation_doMap_items(path, schema, t, value.Items)
      [] OTHER ->
            <<ValidationError(path, "expected list, found " \o HumanReadable(value))>>

validate(path, value, schema, typeRef) ==
    LET r == Resolve(schema, typeRef)
        a == r.Atom
    IN IF ~r.ok
       THEN <<ValidationError(path, "no type found matching: " \o typeRef.NamedType)>>
       ELSE CASE a.kind = "Scalar" -> validation_doScalar(path, a.Scalar, value)
              [] a.kind = "Struct" -> validation_doStruct(path, schema, a, value)
              [] a.kind = "List" -> validation_doList(path, schema, a, value)
              [] a.kind = "Map" -> validation_doMap(path, schema, a, value)
              [] a.kind = "Untyped" -> <<>>
              [] OTHER -> <<ValidationError(path, "invalid atom")>>

(***************************************************************************)
(* The removing walker.                                                    *)
(***************************************************************************)
RECURSIVE removeItemsWithSchema(_, _, _, _)
RECURSIVE removingWalker_doList_items(_, _, _, _, _)
RECURSIVE removingWalker_doMap_items(_, _, _, _)

\* The loop of doList (lines 52-66) from element i on: the surviving items.
removingWalker_doList_items(items, i, toRemove, schema, t) ==
    IF i > Len(items) THEN <<>>
    ELSE LET item == items[i]
             pe == listItemToPathElement(t, i - 1, item).pe
             path == MakePath(pe)
             subset == WithPrefix(toRemove, pe)
             rest == removingWalker_doList_items(items, i + 1, toRemove, schema, t)
         IN IF SetHas(toRemove, path)
            THEN rest
            ELSE IF ~SetEmpty(subset)
            THEN <<removeItemsWithSchema(item, subset, schema, t.ElementType)>> \o rest
            ELSE <<item>> \o rest

\* doList that stores an empty list when no element survives.
removingWalker_doList_keepsEmpty(value, toRemove, schema, t) ==
    IF value.kind # "List" \/ Len(value.Items) = 0 \/ t.ElementRelationship = Atomic
    THEN value
    ELSE ListValue(removingWalker_doList_items(value.Items, 1, toRemove, schema, t))

removingWalker_doList(value, toRemove, schema, t) ==
    IF value.kind # "List" \/ Len(value.Items) = 0 \/ t.ElementRelationship = Atomic
    THEN value
    ELSE LET newItems == removingWalker_doList_items(value.Items, 1, toRemove, schema, t)
         IN IF Len(newItems) > 0 THEN ListValue(newItems) ELSE NullValue

\* fieldTypes (lines 83-86): the last declaration of a name is the one kept.
fieldTypes(t) ==
    [n \in {t.Fields[i].Name : i \in DOMAIN t.Fields} |->
        t.Fields[CHOOSE i \in DOMAIN t.Fields :
                    /\ t.Fields[i].Name = n
                    /\ \A j \in DOMAIN t.Fields : t.Fields[j].Name = n => j <= i].Type]

\* The loop of doMap (lines 89-107) over the entries: the surviving ones.
\* The entries of the Go map have no order; the model keeps them in the
\* order of the value's Items.
removingWalker_doMap_items(items, toRemove, schema, t) ==
    IF items = <<>> THEN <<>>
    ELSE LET key == Head(items).Name
             val == Head(items).Value
             pe == FieldNamePE(key)
             path == MakePath(pe)
             declared == key \in DOMAIN fieldTypes(t)
             fieldType == IF declared THEN fieldTypes(t)[key] ELSE t.ElementType
             subset == WithPrefix(toRemove, pe)
             rest == removingWalker_doMap_items(Tail(items), toRemove, schema, t)
         IN IF ~declared /\ SetHas(toRemove, path)
            THEN rest
            ELSE IF ~SetEmpty(subset)
            THEN <<Field(key, removeItemsWithSchema(val, subset, schema, fieldType))>> \o rest
            ELSE <<Field(key, val)>> \o rest

removingWalker_doMap(value, toRemove, schema, t) ==
    IF value.kind # "Map" \/ Len(value.Items) = 0 \/ t.ElementRelationship = Atomic
    THEN value
    ELSE LET newMap == removingWalker_doMap_items(value.Items, toRemove, schema, t)
         IN IF Len(newMap) > 0 THEN MapValue(newMap) ELSE NullValue

\* resolveSchema: the type is resolved and the walker's handler for the
\* atom runs; a scalar is left alone and so is a type that does not resolve.
resolveSchema(schema, typeRef, value, toRemove) ==
    LET r == Resolve(schema, typeRef)
    IN IF ~r.ok THEN value
       ELSE CASE r.Atom.kind = "List" -> removingWalker_doList(value, toRemove, schema, r.Atom)
              [] r.Atom.kind = "Map" -> removingWalker_doMap(value, toRemove, schema, r.Atom)
              [] OTHER -> value

\* The value is changed in place; the model returns the new value.
removeItemsWithSchema(value, toRemove, schema, typeRef) ==
    resolveSchema(schema, typeRef, value, toRemove)

(***************************************************************************)
(* The state: one group of variables per component.                        *)
(***************************************************************************)
VARIABLES
    vtype, vvalue, verrs, vdone,        \* a validation: its input and its result
    rtype, rset, rorig, rvalue, rprev,  \* a removal: type, paths, document before
    rcount,                             \*   and after, and the removals made
    gindex, gitem, gresult, gdone,      \* a guess: its input and its result
    mItems, mIndex, mPrev, mLast, mOps, \* a Map: Items, index, and the last call
    tcalls, tcrashed,                   \* the table lookups made and their results
    dlist, ditems, dresults             \* a list, its elements and their identities

vvars == <<vtype, vvalue, verrs, vdone>>
rvars == <<rtype, rset, rorig, rvalue, rprev, rcount>>
gvars == <<gindex, gitem, gresult, gdone>>
mvars == <<mItems, mIndex, mPrev, mLast, mOps>>
tvars == <<tcalls, tcrashed>>
dvars == <<dlist, ditems, dresults>>
vars == <<vvars, rvars, gvars, mvars, tvars, dvars>>

\* The components that a specification leaves alone.
ValidateIdle ==
    /\ vtype = Inlined(UntypedAtom)
    /\ vvalue = NullValue
    /\ verrs = <<>>
    /\ vdone = TRUE

RemoveIdle ==
    /\ rtype = Inlined(UntypedAtom)
    /\ rset = {}
    /\ rorig = NullValue
    /\ rvalue = NullValue
    /\ rprev = NullValue
    /\ rcount = MaxRemovals

GuessIdle ==
    /\ gindex = 0
    /\ gitem = NullValue
    /\ gresult = IndexPE(0)
    /\ gdone = TRUE

NoCall == [op |-> "none"]

MapIdle ==
    /\ mItems = <<>>
    /\ mIndex = NilIndex
    /\ mPrev = <<>>
    /\ mLast = NoCall
    /\ mOps = MaxOps

TableIdle ==
    /\ tcalls = <<>>
    /\ tcrashed = TRUE

DeriveIdle ==
    /\ dlist = ListAtom(Inlined(UntypedAtom), Atomic, <<>>)
    /\ ditems = <<>>
    /\ dresults = <<>>

(***************************************************************************)
(* Inputs of the validating walker.                                        *)
(***************************************************************************)
\* The type catalog the walkers resolve named types against.
TheSchema ==
    << TypeDef("str", ScalarAtom(String)),
       TypeDef("num", ScalarAtom(Numeric)),
       TypeDef("item", StructAtom(<< StructField("id", NamedType("str")),
                                     StructField("extra", NamedType("num")) >>)) >>

\* All sequences of length at most n over the set S.
SeqsUpTo(S, n) == UNION {[1..k -> S] : k \in 0..n}

FieldNames == {"id", "extra"}
FieldValues == {StringValue("a"), IntValue(1)}
ScalarValues == {StringValue("a"), StringValue("b"), IntValue(1), FloatValue(10),
                 BooleanValue(TRUE)}

\* Maps of at most two entries with distinct names, in either order.
SmallMaps ==
    {MapValue(<<>>)}
    \cup {MapValue(<<Field(n, v)>>) : n \in FieldNames, v \in FieldValues}
    \cup UNION {{MapValue(<<Field(n1, v1), Field(n2, v2)>>) :
                    n2 \in FieldNames \ {n1}, v1 \in FieldValues, v2 \in FieldValues} :
                 n1 \in FieldNames}

ElementValues ==
    {NullValue} \cup ScalarValues \cup SmallMaps
    \cup {ListValue(<<>>), ListValue(<<StringValue("a"), StringValue("a")>>)}

ScalarTypes ==
    {Inlined(ScalarAtom(Numeric)), Inlined(ScalarAtom(String)),
     Inlined(ScalarAtom(Boolean)), NamedType("str")}

StructTypes ==
    {Inlined(StructAtom(<<StructField("id", NamedType("str"))>>)),
     NamedType("item"),
     Inlined(StructAtom(<<StructField("id", NamedType("missing"))>>))}

ListTypes ==
    {Inlined(ListAtom(NamedType("item"), Associative, <<"id">>)),
     Inlined(ListAtom(Inlined(UntypedAtom), Associative, <<"id", "extra">>)),
     Inlined(ListAtom(NamedType("str"), Associative, <<>>)),
     Inlined(ListAtom(NamedType("num"), Associative, <<>>)),
     Inlined(ListAtom(Inlined(ListAtom(NamedType("str"), Associative, <<>>)),
                      Atomic, <<>>))}

OtherTypes ==
    {Inlined(MapAtom(<<>>, NamedType("str"), Separable)), Inlined(UntypedAtom),
     NamedType("missing")}

IsListType(typeRef) ==
    Resolve(TheSchema, typeRef).ok /\ Resolve(TheSchema, typeRef).Atom.kind = "List"

\* The elements of the lists handed to a list type: one value of every kind,
\* two strings, and the maps that have, lack or mistype a key field.
ListElements ==
    {NullValue, StringValue("a"), StringValue("b"), IntValue(1), BooleanValue(TRUE),
     MapValue(<<>>),
     MapValue(<<Field("id", StringValue("a"))>>),
     MapValue(<<Field("id", IntValue(1))>>),
     MapValue(<<Field("extra", IntValue(1))>>),
     MapValue(<<Field("id", StringValue("a")), Field("extra", IntValue(1))>>),
     MapValue(<<Field("extra", StringValue("a")), Field("id", StringValue("a"))>>),
     ListValue(<<>>), ListValue(<<StringValue("a"), StringValue("a")>>)}

ValidateInit ==
    /\ vtype \in ScalarTypes \cup StructTypes \cup ListTypes \cup OtherTypes
    /\ vvalue \in ElementValues
                  \cup {ListValue(items) : items \in SeqsUpTo(ElementValues, 1)}
                  \cup (IF IsListType(vtype)
                        THEN {ListValue(items) : items \in SeqsUpTo(ListElements, MaxListLen)}
                        ELSE {})
    /\ verrs = <<>>
    /\ vdone = FALSE
    /\ RemoveIdle /\ GuessIdle /\ MapIdle /\ TableIdle /\ DeriveIdle

\* AsTyped / Validate: the walker runs from the empty path.
Validate ==
    /\ ~vdone
    /\ verrs' = validate(<<>>, vvalue, TheSchema, vtype)
    /\ vdone' = TRUE
    /\ UNCHANGED <<vtype, vvalue, rvars, gvars, mvars, tvars, dvars>>

SpecValidate == ValidateInit /\ [][Validate]_vars

(***************************************************************************)
(* Inputs of the removing walker.                                          *)
(***************************************************************************)
RemoveScalars == {StringValue("a"), StringValue("b")}
RemoveExtras == {StringValue("a")}

StrMap == MapAtom(<<>>, NamedType("str"), Separable)
StrStruct == MapAtom(<<StructField("id", NamedType("str"))>>, NamedType("str"), Separable)
StrSet == ListAtom(NamedType("str"), Associative, <<>>)

MapTypes ==
    {Inlined(StrMap), Inlined(StrStruct),
     Inlined(MapAtom(<<>>, NamedType("str"), Atomic)),
     Inlined(MapAtom(<<>>, Inlined(StrMap), Separable)),
     Inlined(MapAtom(<<StructField("id", Inlined(StrSet))>>, NamedType("str"), Separable))}

RemoveListTypes ==
    {Inlined(ListAtom(Inlined(StrMap), Associative, <<"id">>)),
     Inlined(ListAtom(Inlined(StrStruct), Associative, <<"id">>)),
     Inlined(ListAtom(Inlined(StrMap), Associative, <<"id", "extra">>)),
     Inlined(ListAtom(Inlined(MapAtom(<<>>, Inlined(StrMap), Separable)),
                      Associative, <<"id">>)),
     Inlined(StrSet),
     Inlined(ListAtom(Inlined(StrMap), Atomic, <<>>))}

IsContainerType(typeRef) ==
    /\ Resolve(TheSchema, typeRef).ok
    /\ Resolve(TheSchema, typeRef).Atom.kind \in {"List", "Map"}

\* The documents of a type: a scalar type has the scalars; a list type has
\* Null and the lists of at most MaxLen documents of its element type; a
\* map type has Null and the maps with an id, an extra, both or neither,
\* where extra is only ever a scalar.
RECURSIVE Documents(_)
Documents(typeRef) ==
    LET a == Resolve(TheSchema, typeRef).Atom
        typeOf(n) == IF n \in DOMAIN fieldTypes(a) THEN fieldTypes(a)[n] ELSE a.ElementType
        ids == Documents(typeOf("id"))
        extras == IF IsContainerType(typeOf("extra")) THEN {} ELSE RemoveExtras
    IN IF ~IsContainerType(typeRef) THEN RemoveScalars
       ELSE IF a.kind = "List"
       THEN {NullValue}
            \cup {ListValue(items) : items \in SeqsUpTo(Documents(a.ElementType), MaxLen)}
       ELSE {NullValue, MapValue(<<>>)}
            \cup {MapValue(<<Field("id", v)>>) : v \in ids}
            \cup {MapValue(<<Field("extra", w)>>) : w \in extras}
            \cup {MapValue(<<Field("id", v), Field("extra", w)>>) : v \in ids, w \in extras}

\* The paths of the nodes of a document: what a removal can address.
RECURSIVE DocumentPaths(_, _)
DocumentPaths(value, typeRef) ==
    LET a == Resolve(TheSchema, typeRef).Atom
        typeOf(n) == IF n \in DOMAIN fieldTypes(a) THEN fieldTypes(a)[n] ELSE a.ElementType
        under(pe, child, childType) ==
            {<<pe>>} \cup {<<pe>> \o p : p \in DocumentPaths(child, childType)}
    IN IF ~IsContainerType(typeRef) THEN {}
       ELSE IF a.kind = "List" /\ value.kind = "List"
       THEN UNION {LET d == listItemToPathElement(a, i - 1, value.Items[i])
                   IN IF d.ok THEN under(d.pe, value.Items[i], a.ElementType) ELSE {} :
                   i \in DOMAIN value.Items}
       ELSE IF a.kind = "Map" /\ value.kind = "Map"
       THEN UNION {under(FieldNamePE(value.Items[i].Name), value.Items[i].Value,
                         typeOf(value.Items[i].Name)) : i \in DOMAIN value.Items}
       ELSE {}

RemoveInit ==
    /\ rtype \in MapTypes \cup RemoveListTypes
    /\ rorig \in Documents(rtype)
    /\ rset \in {set \in SUBSET DocumentPaths(rorig, rtype) : Cardinality(set) <= MaxRemove}
    /\ rvalue = rorig
    /\ rprev = rorig
    /\ rcount = 0
    /\ ValidateIdle /\ GuessIdle /\ MapIdle /\ TableIdle /\ DeriveIdle

\* RemoveItems: the paths of rset are removed from the document.
RemoveItems ==
    /\ rcount < MaxRemovals
    /\ rprev' = rvalue
    /\ rvalue' = removeItemsWithSchema(rvalue, rset, TheSchema, rtype)
    /\ rcount' = rcount + 1
    /\ UNCHANGED <<rtype, rset, rorig, vvars, gvars, mvars, tvars, dvars>>

SpecRemove == RemoveInit /\ [][RemoveItems]_vars

(***************************************************************************)
(* The heuristic: its inputs and its one operation.                        *)
(***************************************************************************)
GuessNames == {"key", "id", "name", "other"}
GuessValues == {StringValue("x"), IntValue(1), NullValue, MapValue(<<>>), ListValue(<<>>)}
GuessFields == {Field(n, v) : n \in GuessNames, v \in GuessValues}

\* The maps of at most MaxFields entries with distinct names, in any order.
GuessMaps ==
    {MapValue(items) :
        items \in {fs \in SeqsUpTo(GuessFields, MaxFields) :
                      \A i, j \in DOMAIN fs : fs[i].Name = fs[j].Name => i = j}}

GuessInit ==
    /\ gindex \in 0..MaxIndex
    /\ gitem \in GuessMaps \cup GuessValues
    /\ gresult = IndexPE(0)
    /\ gdone = FALSE
    /\ ValidateIdle /\ RemoveIdle /\ MapIdle /\ TableIdle /\ DeriveIdle

Guess ==
    /\ ~gdone
    /\ gresult' = GuessBestListPathElement(gindex, gitem)
    /\ gdone' = TRUE
    /\ UNCHANGED <<gindex, gitem, vvars, rvars, mvars, tvars, dvars>>

SpecGuess == GuessInit /\ [][Guess]_vars

(***************************************************************************)
(* A Map under Set and Get calls.                                          *)
(***************************************************************************)
MapKeys == {"a", "b", "c"}
MapVals == {IntValue(1), IntValue(2)}

\* A Map as built by a parser: entries of distinct names and no index yet.
MapInit ==
    /\ mItems \in {fs \in SeqsUpTo({Field(k, v) : k \in MapKeys, v \in MapVals}, 2) :
                      \A i, j \in DOMAIN fs : fs[i].Name = fs[j].Name => i = j}
    /\ mIndex = NilIndex
    /\ mPrev = mItems
    /\ mLast = NoCall
    /\ mOps = 0
    /\ ValidateIdle /\ RemoveIdle /\ GuessIdle /\ TableIdle /\ DeriveIdle

CallGet ==
    /\ mOps < MaxOps
    /\ \E key \in MapKeys :
          LET got == Map_Get(mItems, mIndex, key)
          IN /\ mItems' = got.Items
             /\ mIndex' = got.index
             /\ mLast' = [op |-> "Get", key |-> key, ok |-> got.ok,
                          Value |-> IF got.ok THEN got.Items[got.f].Value ELSE NullValue]
    /\ mPrev' = mItems
    /\ mOps' = mOps + 1
    /\ UNCHANGED <<vvars, rvars, gvars, tvars, dvars>>

CallSet ==
    /\ mOps < MaxOps
    /\ \E key \in MapKeys, value \in MapVals :
          LET set == Map_Set(mItems, mIndex, key, value)
          IN /\ mItems' = set.Items
             /\ mIndex' = set.index
             /\ mLast' = [op |-> "Set", key |-> key, Value |-> value]
    /\ mPrev' = mItems
    /\ mOps' = mOps + 1
    /\ UNCHANGED <<vvars, rvars, gvars, tvars, dvars>>

SpecMap == MapInit /\ [][CallGet \/ CallSet]_vars

(***************************************************************************)
(* The string tables under lookups.                                        *)
(***************************************************************************)
\* Every version number from two below the first to one past the count.
LookupVersions == (0 - 2)..(Len(versions) + 1)

TableInit ==
    /\ tcalls = <<>>
    /\ tcrashed = FALSE
    /\ ValidateIdle /\ RemoveIdle /\ GuessIdle /\ MapIdle /\ DeriveIdle

\* A panic ends the program.
CallGetTable ==
    /\ ~tcrashed
    /\ Len(tcalls) < MaxCalls
    /\ \E i \in LookupVersions :
          /\ tcalls' = Append(tcalls, [fn |-> "GetTable", version |-> i,
                                       result |-> GetTable(i)])
          /\ tcrashed' = (GetTable(i).kind = "panic")
    /\ UNCHANGED <<vvars, rvars, gvars, mvars, dvars>>

CallGetReverseTable ==
    /\ ~tcrashed
    /\ Len(tcalls) < MaxCalls
    /\ \E i \in LookupVersions :
          /\ tcalls' = Append(tcalls, [fn |-> "GetReverseTable", version |-> i,
                                       result |-> GetReverseTable(i)])
          /\ tcrashed' = (GetReverseTable(i).kind = "panic")
    /\ UNCHANGED <<vvars, rvars, gvars, mvars, dvars>>

SpecTable == TableInit /\ [][CallGetTable \/ CallGetReverseTable]_vars

(***************************************************************************)
(* The identities of the elements of one list.                             *)
(***************************************************************************)
IdentityValues == {StringValue("a"), StringValue("b")}

\* A Null, a scalar, and the maps of distinct names that hold id, extra,
\* both in either order, or neither; one map holds a Null id and one has a
\* third field in front.
IdentityItems ==
    {NullValue, StringValue("a"), MapValue(<<>>),
     MapValue(<<Field("id", NullValue)>>),
     MapValue(<<Field("other", StringValue("b")), Field("extra", StringValue("a")),
                Field("id", StringValue("a"))>>)}
    \cup {MapValue(<<Field(n, v)>>) : n \in FieldNames, v \in IdentityValues}
    \cup {MapValue(<<Field("id", v), Field("extra", w)>>) :
             v \in IdentityValues, w \in IdentityValues}
    \cup {MapValue(<<Field("extra", w), Field("id", v)>>) :
             v \in IdentityValues, w \in IdentityValues}

IdentityLists ==
    {ListAtom(Inlined(UntypedAtom), Associative, <<"id">>),
     ListAtom(Inlined(UntypedAtom), Associative, <<"id", "extra">>),
     ListAtom(Inlined(UntypedAtom), Associative, <<"extra", "id">>),
     ListAtom(Inlined(UntypedAtom), Associative, <<>>),
     ListAtom(Inlined(UntypedAtom), Atomic, <<>>),
     ListAtom(Inlined(UntypedAtom), Atomic, <<"id">>)}

DeriveInit ==
    /\ dlist \in IdentityLists
    /\ ditems \in SeqsUpTo(IdentityItems, MaxElems) \ {<<>>}
    /\ dresults = <<>>
    /\ ValidateIdle /\ RemoveIdle /\ GuessIdle /\ MapIdle /\ TableIdle

\* One turn of the loop over list.Items: the identity of the next element
\* is derived from the list's type, the element's index and the element.
DeriveElement ==
    /\ Len(dresults) < Len(ditems)
    /\ dresults' = Append(dresults,
                          listItemToPathElement(dlist, Len(dresults),
                                                ditems[Len(dresults) + 1]))
    /\ UNCHANGED <<dlist, ditems, vvars, rvars, gvars, mvars, tvars>>

SpecDerive == DeriveInit /\ [][DeriveElement]_vars

(***************************************************************************)
(* Claims about the validating walker.                                     *)
(***************************************************************************)
VAtom == Resolve(TheSchema, vtype).Atom
VResolves(kind) == Resolve(TheSchema, vtype).ok /\ VAtom.kind = kind

\* How often the error e occurs in the result.
ErrCount(e) == Cardinality({i \in DOMAIN verrs : verrs[i] = e})

\* The derivation of the root list's element i (1-based position).
VDerived(i) == listItemToPathElement(VAtom, i - 1, vvalue.Items[i])
VKeyStr(i) == PathElementString(VDerived(i).pe)

\* Element j repeats the canonical form of an earlier derivable element.
VRepeats(j) ==
    /\ VDerived(j).ok
    /\ \E i \in 1..(j - 1) : VDerived(i).ok /\ VKeyStr(i) = VKeyStr(j)

DuplicateError(keyStr) == ValidationError(<<>>, "duplicate entries for key " \o keyStr)

\* C3: validating a list reports, at the list's path, one "duplicate entries
\* for key" error for every element whose derived path element has the
\* canonical string form of an earlier element's, and no such error when all
\* canonical forms are distinct.
C3_DuplicateDetection ==
    (vdone /\ VResolves("List") /\ vvalue.kind = "List") =>
        /\ \A j \in DOMAIN vvalue.Items :
              VDerived(j).ok =>
                 ErrCount(DuplicateError(VKeyStr(j)))
                    = Cardinality({k \in DOMAIN vvalue.Items :
                                      VRepeats(k) /\ VKeyStr(k) = VKeyStr(j)})
        /\ (\A j \in DOMAIN vvalue.Items : ~VRepeats(j)) =>
              \A e \in DOMAIN verrs :
                 \A j \in DOMAIN vvalue.Items :
                    VDerived(j).ok => verrs[e] # DuplicateError(VKeyStr(j))

\* The set ["a","b","a"]: the third element repeats the first.
C3_Witness ==
    /\ vdone
    /\ vtype = Inlined(ListAtom(NamedType("str"), Associative, <<>>))
    /\ vvalue = ListValue(<<StringValue("a"), StringValue("b"), StringValue("a")>>)
    /\ verrs = <<DuplicateError("[\"a\"]")>>

UnknownFieldError(name) ==
    ValidationError(<<>>, "field " \o name \o " is not mentioned in the schema")

\* The errors of the result found at or under the field called name.
ErrorsUnder(name) ==
    SelectSeq(verrs, LAMBDA e : e.Path # <<>> /\ e.Path[1] = FieldNamePE(name))

\* C4: a Map validated against a Struct gets one "not mentioned in the
\* schema" error per entry whose name is not declared and no error for a
\* declared field that is absent or conforms; Null gets no error and any
\* other value exactly one type error.
C4_ClosedStruct ==
    (vdone /\ VResolves("Struct")) =>
        LET declared == {VAtom.Fields[i].Name : i \in DOMAIN VAtom.Fields}
            typeOf(n) == VAtom.Fields[CHOOSE i \in DOMAIN VAtom.Fields :
                                         VAtom.Fields[i].Name = n].Type
            present(n) == \E i \in DOMAIN vvalue.Items : vvalue.Items[i].Name = n
            valueOf(n) == vvalue.Items[CHOOSE i \in DOMAIN vvalue.Items :
                                          vvalue.Items[i].Name = n].Value
        IN CASE vvalue.kind = "Null" -> verrs = <<>>
             [] vvalue.kind = "Map" ->
                   /\ \A n \in FieldNames \ declared :
                         ErrCount(UnknownFieldError(n))
                            = Cardinality({i \in DOMAIN vvalue.Items :
                                              vvalue.Items[i].Name = n})
                   /\ \A n \in declared :
                         /\ ErrCount(UnknownFieldError(n)) = 0
                         /\ ErrorsUnder(n) =
                               IF present(n)
                               THEN validate(<<FieldNamePE(n)>>, valueOf(n),
                                             TheSchema, typeOf(n))
                               ELSE <<>>
                   /\ Len(verrs) =
                         Cardinality({i \in DOMAIN vvalue.Items :
                                         vvalue.Items[i].Name \notin declared})
                         + Cardinality({i \in DOMAIN verrs : verrs[i].Path # <<>>})
             [] OTHER ->
                   verrs = <<ValidationError(<<>>, "expected struct, got "
                                                   \o HumanReadable(vvalue))>>

\* {id:"a", extra:1} against a struct that declares only id.
C4_Witness ==
    /\ vdone
    /\ vtype = Inlined(StructAtom(<<StructField("id", NamedType("str"))>>))
    /\ vvalue = MapValue(<<Field("id", StringValue("a")), Field("extra", IntValue(1))>>)
    /\ verrs = <<UnknownFieldError("extra")>>

\* The value kinds each scalar accepts.
ScalarAccepts ==
    {<<Numeric, "Int">>, <<Numeric, "Float">>, <<String, "String">>,
     <<Boolean, "Boolean">>}

ScalarExpected(scalar) ==
    CASE scalar = Numeric -> "expected numeric (int or float), got "
      [] scalar = String -> "expected string, got "
      [] scalar = Boolean -> "expected boolean, got "

\* C7: a value validated against a Scalar gets no error when its
\* representation is one the scalar accepts and exactly one type-mismatch
\* error otherwise.
C7_ScalarTyping ==
    (vdone /\ VResolves("Scalar")) =>
        IF <<VAtom.Scalar, vvalue.kind>> \in ScalarAccepts
        THEN verrs = <<>>
        ELSE verrs = <<ValidationError(<<>>, ScalarExpected(VAtom.Scalar)
                                             \o HumanReadable(vvalue))>>

\* A Boolean handed to a String.
C7_Witness ==
    /\ vdone
    /\ vtype = NamedType("str")
    /\ vvalue = BooleanValue(TRUE)
    /\ Len(verrs) = 1

ElementError(i) ==
    ValidationError(<<>>, "element " \o IntStr(i - 1) \o ": " \o VDerived(i).err)

\* What element i of the root list contributes to the result.
VSegment(i) ==
    IF ~VDerived(i).ok
    THEN <<ElementError(i)>>
    ELSE (IF VRepeats(i) THEN <<DuplicateError(VKeyStr(i))>> ELSE <<>>)
         \o validate(<<VDerived(i).pe>>, vvalue.Items[i], TheSchema, VAtom.ElementType)

\* C10: an element whose path element cannot be derived contributes exactly
\* its one "element i" error, is not descended into and takes no part in
\* duplicate detection; every other element is duplicate-checked and
\* validated, and the errors come in element order.
C10_FailureLocalized ==
    (vdone /\ VResolves("List") /\ vvalue.kind = "List") =>
        verrs = Concat([i \in DOMAIN vvalue.Items |-> VSegment(i)])

\* A Null between two elements of one key: the Null is reported and the
\* third element is still found to repeat the first.
C10_Witness ==
    /\ vdone
    /\ vtype = Inlined(ListAtom(NamedType("item"), Associative, <<"id">>))
    /\ vvalue = ListValue(<<MapValue(<<Field("id", StringValue("a"))>>), NullValue,
                            MapValue(<<Field("id", StringValue("a"))>>)>>)
    /\ verrs = <<ValidationError(<<>>,
                    "element 1: associative list with keys may not have a null element"),
                 DuplicateError("[id=\"a\"]")>>

(***************************************************************************)
(* Claims about the removing walker.                                       *)
(***************************************************************************)
RAtom == Resolve(TheSchema, rtype).Atom
RResolves(kind) == Resolve(TheSchema, rtype).ok /\ RAtom.kind = kind

RECURSIVE IdentityKept(_, _, _)
IdentityKept(value, toRemove, typeRef) ==
    LET a == Resolve(TheSchema, typeRef).Atom
        typeOf(n) == IF n \in DOMAIN fieldTypes(a) THEN fieldTypes(a)[n] ELSE a.ElementType
    IN IF ~IsContainerType(typeRef) THEN TRUE
       ELSE IF a.kind = "List" /\ value.kind = "List" /\ a.ElementRelationship # Atomic
       THEN \A i \in DOMAIN value.Items :
               LET item == value.Items[i]
                   d == listItemToPathElement(a, i - 1, item)
                   subset == WithPrefix(toRemove, d.pe)
               IN (~SetHas(toRemove, <<d.pe>>) /\ subset # {}) =>
                     /\ IdentityKept(item, subset, a.ElementType)
                     /\ listItemToPathElement(a, i - 1,
                           removeItemsWithSchema(item, subset, TheSchema, a.ElementType)) = d
       ELSE IF a.kind = "Map" /\ value.kind = "Map" /\ a.ElementRelationship # Atomic
       THEN \A i \in DOMAIN value.Items :
               LET pe == FieldNamePE(value.Items[i].Name)
               IN IdentityKept(value.Items[i].Value, WithPrefix(toRemove, pe),
                               typeOf(value.Items[i].Name))
       ELSE TRUE

C2_SoleFieldRemoved ==
    (/\ rcount = 1
     /\ RResolves("Map")
     /\ RAtom.ElementRelationship # Atomic
     /\ rorig.kind = "Map"
     /\ Len(rorig.Items) = 1
     /\ SetHas(rset, <<FieldNamePE(rorig.Items[1].Name)>>))
    => rvalue = NullValue

\* The derived path element of element i of the original list.
RElementPE(i) == listItemToPathElement(RAtom, i - 1, rorig.Items[i]).pe

\* The elements of the original list whose own path is not to be removed.
RSurvivors == {i \in DOMAIN rorig.Items : ~SetHas(rset, <<RElementPE(i)>>)}

\* What a surviving element becomes.
RSurvivor(i) ==
    LET subset == WithPrefix(rset, RElementPE(i))
    IN IF subset # {}
       THEN removeItemsWithSchema(rorig.Items[i], subset, TheSchema, RAtom.ElementType)
       ELSE rorig.Items[i]

\* C9: a non-atomic, non-empty list becomes the list of its elements whose
\* own path is not in the removal set, in their order, each rewritten only
\* when some removal path lies under it, and Null when none is left; a
\* Null, empty or atomic list stays as it is.
C9_ListRemoval ==
    (rcount = 1 /\ RResolves("List")) =>
        IF \/ rorig.kind # "List"
           \/ Len(rorig.Items) = 0
           \/ RAtom.ElementRelationship = Atomic
        THEN rvalue = rorig
        ELSE IF RSurvivors = {}
        THEN rvalue = NullValue
        ELSE /\ rvalue.kind = "List"
             /\ Len(rvalue.Items) = Cardinality(RSurvivors)
             /\ \A i \in RSurvivors :
                   rvalue.Items[Cardinality({j \in RSurvivors : j <= i})] = RSurvivor(i)

\* The first element is dropped, the second loses a field.
C9_Witness ==
    /\ rcount = 1
    /\ rtype = Inlined(ListAtom(Inlined(StrMap), Associative, <<"id">>))
    /\ rorig = ListValue(<<MapValue(<<Field("id", StringValue("b"))>>),
                           MapValue(<<Field("id", StringValue("a")),
                                      Field("extra", StringValue("a"))>>)>>)
    /\ rset = {<<KeyPE(<<Field("id", StringValue("b"))>>)>>,
               <<KeyPE(<<Field("id", StringValue("a"))>>), FieldNamePE("extra")>>}
    /\ rvalue = ListValue(<<MapValue(<<Field("id", StringValue("a"))>>)>>)

(***************************************************************************)
(* Claims about the string tables, the Map and the heuristic.              *)
(***************************************************************************)
\* C5: a lookup of a defined version 0..N-1 returns that version's table,
\* and a lookup of any other version returns an error: no table, no panic.
C5_VersionLookup ==
    \A c \in DOMAIN tcalls :
        LET call == tcalls[c]
            tables == IF call.fn = "GetTable" THEN stringTables ELSE reverseTables
        IN IF call.version \in 0..(Len(versions) - 1)
           THEN call.result = [kind |-> "ok", table |-> tables[call.version + 1]]
           ELSE call.result.kind = "error"

MHas(items, key) == \E i \in DOMAIN items : items[i].Name = key
MPos(items, key) == CHOOSE i \in DOMAIN items : items[i].Name = key

\* C6: from a Map of distinct names, under any Set and Get calls, a Set of
\* a present key replaces that entry's value where it stands, a Set of an
\* absent key appends the entry, the names stay distinct, and a Get finds
\* exactly the entry of Items that has the key, with its value; the index,
\* once built, is the index of Items.
C6_IndexAgrees ==
    /\ \A i, j \in DOMAIN mItems : mItems[i].Name = mItems[j].Name => i = j
    /\ ~mIndex.nil =>
          /\ DOMAIN mIndex.at = {mItems[i].Name : i \in DOMAIN mItems}
          /\ \A n \in DOMAIN mIndex.at : mItems[mIndex.at[n]].Name = n
    /\ mLast.op = "Set" =>
          IF MHas(mPrev, mLast.key)
          THEN /\ Len(mItems) = Len(mPrev)
               /\ \A i \in DOMAIN mPrev :
                     /\ mItems[i].Name = mPrev[i].Name
                     /\ mItems[i].Value = IF mPrev[i].Name = mLast.key
                                          THEN mLast.Value ELSE mPrev[i].Value
          ELSE mItems = mPrev \o <<Field(mLast.key, mLast.Value)>>
    /\ mLast.op = "Get" =>
          /\ mItems = mPrev
          /\ mLast.ok <=> MHas(mItems, mLast.key)
          /\ mLast.ok => mLast.Value = mItems[MPos(mItems, mLast.key)].Value

\* A key is appended, overwritten where it stands, and read back.
C6_Witness ==
    /\ mOps = 3
    /\ mLast = [op |-> "Get", key |-> "b", ok |-> TRUE, Value |-> IntValue(1)]
    /\ mItems = <<Field("a", IntValue(1)), Field("b", IntValue(1)), Field("c", IntValue(2))>>
    /\ ~mIndex.nil

GScalarField(n) ==
    \E i \in DOMAIN gitem.Items :
        gitem.Items[i].Name = n /\ IsScalarValue(gitem.Items[i].Value)

\* C8: for a Map with a scalar field called key, id or name the heuristic
\* gives the Key of all such fields, in that order, with the item's values;
\* for anything else it gives Index(i).
C8_HeuristicIdentity ==
    gdone =>
        LET found == IF gitem.kind = "Map"
                     THEN SelectSeq(<<"key", "id", "name">>, GScalarField)
                     ELSE <<>>
        IN IF found # <<>>
           THEN /\ gresult.kind = "Key"
                /\ Len(gresult.Key) = Len(found)
                /\ \A k \in DOMAIN found :
                      /\ gresult.Key[k].Name = found[k]
                      /\ \E i \in DOMAIN gitem.Items : gitem.Items[i] = gresult.Key[k]
           ELSE gresult = IndexPE(gindex)

\* {name:"x"} at position 1, and an item whose name and key both count.
C8_Witness ==
    /\ gdone
    /\ gindex = 1
    /\ gitem = MapValue(<<Field("name", StringValue("x")), Field("id", NullValue),
                          Field("key", IntValue(1))>>)
    /\ gresult = KeyPE(<<Field("key", IntValue(1)), Field("name", StringValue("x"))>>)

(***************************************************************************)
(* Claims about the identity of list elements.                             *)
(***************************************************************************)
\* The element holds exactly one entry for every key field of the list.
DHasKeys(item) ==
    /\ item.kind = "Map"
    /\ \A k \in DOMAIN dlist.Keys :
          Cardinality({f \in DOMAIN item.Items : item.Items[f].Name = dlist.Keys[k]}) = 1

\* The element's value for the field called name.
DValueOf(item, name) ==
    item.Items[CHOOSE f \in DOMAIN item.Items : item.Items[f].Name = name].Value

\* Two elements hold the same values for every key field of the list.
DSameKeys(a, b) ==
    \A k \in DOMAIN dlist.Keys :
        DValueOf(a, dlist.Keys[k]) = DValueOf(b, dlist.Keys[k])

\* C11: in an Associative list with Keys, a Map element holding every key
\* field is given the Key of the (name, value) pairs of the key fields in
\* the order of Keys, with the element's values, so elements that agree on
\* the key fields get one and the same Key whatever their field order and
\* index; in an Atomic list element i is given Index(i) whatever it holds.
C11_KeyedIdentity ==
    /\ (dlist.ElementRelationship = Associative /\ dlist.Keys # <<>>) =>
          /\ \A i \in DOMAIN dresults :
                DHasKeys(ditems[i]) =>
                   /\ dresults[i].ok
                   /\ dresults[i].pe.kind = "Key"
                   /\ Len(dresults[i].pe.Key) = Len(dlist.Keys)
                   /\ \A k \in DOMAIN dlist.Keys :
                         dresults[i].pe.Key[k]
                            = Field(dlist.Keys[k], DValueOf(ditems[i], dlist.Keys[k]))
          /\ \A i, j \in DOMAIN dresults :
                (DHasKeys(ditems[i]) /\ DHasKeys(ditems[j])
                 /\ DSameKeys(ditems[i], ditems[j])) =>
                   /\ dresults[i] = dresults[j]
                   /\ PathElementString(dresults[i].pe) = PathElementString(dresults[j].pe)
    /\ dlist.ElementRelationship = Atomic =>
          \A i \in DOMAIN dresults :
             /\ dresults[i].ok
             /\ dresults[i].pe = IndexPE(i - 1)

\* Two elements that store id and extra in opposite orders, at indices 0
\* and 1 of a list keyed by id then extra, are given one Key.
C11_Witness ==
    /\ dlist = ListAtom(Inlined(UntypedAtom), Associative, <<"id", "extra">>)
    /\ ditems = <<MapValue(<<Field("extra", StringValue("b")), Field("id", StringValue("a"))>>),
                  MapValue(<<Field("id", StringValue("a")), Field("extra", StringValue("b"))>>)>>
    /\ Len(dresults) = 2
    /\ dresults[1] = Derived(KeyPE(<<Field("id", StringValue("a")),
                                     Field("extra", StringValue("b"))>>))
    /\ dresults[2] = dresults[1]

(***************************************************************************)
(* The whole library: any component may be the one in use.                 *)
(***************************************************************************)
Init == ValidateInit \/ RemoveInit \/ GuessInit \/ MapInit \/ TableInit \/ DeriveInit

Next ==
    \/ Validate
    \/ RemoveItems
    \/ Guess
    \/ CallGet
    \/ CallSet
    \/ CallGetTable
    \/ CallGetReverseTable
    \/ DeriveElement

Spec == Init /\ [][Next]_vars

=============================================================================
